---- MODULE Spec2Model ----
(***************************************************************************)
(* Model of the echo microservice: the echo-server binary (src/server.rs)  *)
(* and the echo client binary (src/main.rs).                               *)
(*                                                                         *)
(* Text is modelled as a sequence of Unicode scalar values (a Rust String  *)
(* is the UTF-8 encoding of such a sequence; Utf8 gives the bytes).        *)
(* Processes are modelled by a program counter per process; the RPC        *)
(* transport between them is the per-client record call[c].                *)
(***************************************************************************)
EXTENDS Integers, Sequences, FiniteSets, TLC

(***************************************************************************)
(* Bounds of the model.                                                    *)
(***************************************************************************)
\* longest message drawn from Alphabet (the message hello is added to the set)
MaxLen == 3

(***************************************************************************)
(* Program constants.                                                      *)
(***************************************************************************)
\* default_value = "50052" of both binaries
DefaultPort == 50052
\* largest value of the u16 port field
MaxU16 == 65535
\* main returned Ok(()), or clap displayed help/version
ExitOk == 0
\* main returned Err: the Termination impl of Result reports failure
ExitFailure == 1
\* clap's exit status for a usage error (Parser::parse exits on error)
ExitUsage == 2

\* default_value = "127.0.0.1"
DefaultHost == <<127, 0, 0, 1>>
\* a host text that is no IPv4 literal (a label out of the octet range)
BadHost == <<300, 0, 0, 1>>

(***************************************************************************)
(* Characters (Unicode scalar values) the messages are drawn from.         *)
(***************************************************************************)
\* h, double quote, backslash, line feed, U+0001 (a control character),
\* e-acute U+00E9 (two bytes in UTF-8), U+0301 (a combining accent)
Ch == [plain |-> 104, quote |-> 34, backslash |-> 92, newline |-> 10,
       ctrl |-> 1, eacute |-> 233, combining |-> 769]

Alphabet == {Ch.plain, Ch.quote, Ch.backslash, Ch.newline, Ch.ctrl, Ch.eacute,
             Ch.combining}

\* "hello"
Hello == <<104, 101, 108, 108, 111>>

Strings(n) == UNION {[1..k -> Alphabet] : k \in 0..n}

Messages == Strings(MaxLen) \cup {Hello}

(***************************************************************************)
(* UTF-8: the bytes of a String.                                           *)
(***************************************************************************)
Utf8Char(c) ==
    IF c < 128 THEN <<c>>
    ELSE IF c < 2048 THEN <<192 + (c \div 64), 128 + (c % 64)>>
    ELSE IF c < 65536
         THEN <<224 + (c \div 4096), 128 + ((c \div 64) % 64), 128 + (c % 64)>>
    ELSE <<240 + (c \div 262144), 128 + ((c \div 4096) % 64),
           128 + ((c \div 64) % 64), 128 + (c % 64)>>

RECURSIVE Utf8(_)
Utf8(s) == IF s = <<>> THEN <<>> ELSE Utf8Char(Head(s)) \o Utf8(Tail(s))

(***************************************************************************)
(* format!("{}", s): Display for str writes the text to the output buffer  *)
(* unchanged (no width or precision is given).                             *)
(***************************************************************************)
RECURSIVE WriteStr(_, _)
WriteStr(buf, s) ==
    IF s = <<>> THEN buf ELSE WriteStr(Append(buf, Head(s)), Tail(s))

FormatDisplay(s) == WriteStr(<<>>, s)

(***************************************************************************)
(* {:?} of a String: Debug for str writes a double quote, each character   *)
(* through char::escape_debug_ext (double quote escaped, grapheme          *)
(* extenders escaped), and a closing double quote.                         *)
(***************************************************************************)
HexDigit(d) == IF d < 10 THEN 48 + d ELSE 87 + d

RECURSIVE HexDigits(_)
HexDigits(n) ==
    IF n < 16 THEN <<HexDigit(n)>>
    ELSE Append(HexDigits(n \div 16), HexDigit(n % 16))

\* \u{..}
EscapeUnicode(c) == <<92, 117, 123>> \o HexDigits(c) \o <<125>>

\* core::unicode::printable restricted to the characters of the model
IsPrintable(c) == (c >= 32 /\ c <= 126) \/ c = Ch.eacute

\* Grapheme_Extend restricted to the characters of the model
IsGraphemeExtended(c) == c = Ch.combining

\* variant of EscapeDebug: nothing is escaped
EscapeNone(c) == <<c>>

EscapeDebug(c) ==
    IF c = 0 THEN <<92, 48>>
    ELSE IF c = 9 THEN <<92, 116>>
    ELSE IF c = 13 THEN <<92, 114>>
    ELSE IF c = 10 THEN <<92, 110>>
    ELSE IF c = 92 THEN <<92, 92>>
    ELSE IF c = 34 THEN <<92, 34>>
    ELSE IF IsGraphemeExtended(c) THEN EscapeUnicode(c)
    ELSE IF IsPrintable(c) THEN <<c>>
    ELSE EscapeUnicode(c)

RECURSIVE EscapeAll(_)
EscapeAll(s) == IF s = <<>> THEN <<>> ELSE EscapeDebug(Head(s)) \o EscapeAll(Tail(s))

FormatDebug(s) == <<34>> \o EscapeAll(s) \o <<34>>


(***************************************************************************)
(* The two binaries' command lines.  An argv is a record: kind says which  *)
(* shape the command line has ("run": flags and arguments only, "help":    *)
(* --help given, "version": --version given, "nomessage": the positional   *)
(* message left out); host is the --server text as its dot-separated       *)
(* labels and port the --port number as typed.                             *)
(***************************************************************************)
Clients == {"c1", "c2"}
Servers == {"s1", "s2"}

Hosts == {DefaultHost, BadHost}
ServerPorts == {DefaultPort, DefaultPort + 1}
ClientPorts == {DefaultPort, DefaultPort + 1}

\* two fixed payloads for the runs that vary everything else
SampleMessages == {Hello, <<Ch.quote, Ch.eacute>>}

DefaultArgv(kind) ==
    [kind |-> kind, host |-> DefaultHost, port |-> DefaultPort, message |-> <<>>]

ClientArgvs(hosts, ports, msgs) ==
    {[kind |-> "run", host |-> h, port |-> p, message |-> m] :
        h \in hosts, p \in ports, m \in msgs}
    \cup {DefaultArgv("help"), DefaultArgv("version"), DefaultArgv("nomessage")}
    \cup {[DefaultArgv("run") EXCEPT !.port = MaxU16 + 1]}

ServerArgvs(hosts, ports) ==
    {[kind |-> "run", host |-> h, port |-> p, message |-> <<>>] :
        h \in hosts, p \in ports}
    \cup {DefaultArgv("help")}

(***************************************************************************)
(* clap: Parser::parse() returns the parsed struct, or prints and exits:   *)
(* status 0 for --help and --version, status 2 for a usage error (a port   *)
(* that is no u16, a missing required argument).  Help and version go to   *)
(* standard output, a usage error to standard error.                       *)
(***************************************************************************)
ClapParse(argv, needsMessage) ==
    IF argv.kind \in {"help", "version"}
    THEN [ok |-> FALSE, exit |-> ExitOk, shows |-> argv.kind]
    ELSE IF argv.port > MaxU16
         THEN [ok |-> FALSE, exit |-> ExitUsage, shows |-> "usage"]
    ELSE IF needsMessage /\ argv.kind = "nomessage"
         THEN [ok |-> FALSE, exit |-> ExitUsage, shows |-> "usage"]
    ELSE [ok |-> TRUE, exit |-> ExitOk, shows |-> "nothing"]

\* the text clap prints for --help ("Usage" and a line feed stand for the
\* whole help text) and for --version ("echo" and a line feed)
ClapText(kind) ==
    IF kind = "help" THEN <<85, 115, 97, 103, 101, 10>> ELSE <<101, 99, 104, 111, 10>>

ClientCliParse(argv) == ClapParse(argv, TRUE)

ServerCliParse(argv) == ClapParse(argv, FALSE)

(***************************************************************************)
(* format!("{}:{}", host, port).parse() as a SocketAddr: the host must be  *)
(* an IPv4 literal (four labels, each an octet); a name is not resolved.   *)
(***************************************************************************)
IsIpv4Literal(host) == Len(host) = 4 /\ \A i \in 1..4 : host[i] <= 255

ParseSocketAddr(host, port) ==
    IF IsIpv4Literal(host) /\ port <= MaxU16
    THEN [ok |-> TRUE, ip |-> host, port |-> port]
    ELSE [ok |-> FALSE, ip |-> <<>>, port |-> 0]

(***************************************************************************)
(* State.                                                                  *)
(***************************************************************************)
VARIABLES
    cargs,     \* client -> its argv
    cpc,       \* client -> "parse", "connect", "call", "await", "exited"
    cexit,     \* client -> <<>> while running, <<status>> once exited
    cout,      \* client -> the characters written to standard output
    cerr,      \* client -> the reports written to standard error
    connects,  \* client -> number of EchoServiceClient::connect calls made
    calls,     \* client -> number of client.echo calls made
    call,      \* client -> its RPC in the transport
    sargs,     \* server -> its argv
    spc,       \* server -> "parse", "addr", "announce", "bind", "serving", "exited"
    sexit,     \* server -> <<>> while running, <<status>> once exited
    saddr,     \* server -> the socket address parsed from its flags
    sout       \* server -> the lines written to standard output

cvars == <<cargs, cpc, cexit, cout, cerr, connects, calls>>
svars == <<sargs, spc, sexit, saddr, sout>>
vars == <<cargs, cpc, cexit, cout, cerr, connects, calls, call,
          sargs, spc, sexit, saddr, sout>>

NoAddr == [ok |-> FALSE, ip |-> <<>>, port |-> 0]
NoCall == [state |-> "none", server |-> <<>>, req |-> [message |-> <<>>],
           resp |-> [ok |-> TRUE, message |-> <<>>]]

InitWith(cset, sset) ==
    /\ cargs \in cset
    /\ sargs \in sset
    /\ cpc = [c \in Clients |-> "parse"]
    /\ cexit = [c \in Clients |-> <<>>]
    /\ cout = [c \in Clients |-> <<>>]
    /\ cerr = [c \in Clients |-> <<>>]
    /\ connects = [c \in Clients |-> 0]
    /\ calls = [c \in Clients |-> 0]
    /\ call = [c \in Clients |-> NoCall]
    /\ spc = [s \in Servers |-> "parse"]
    /\ sexit = [s \in Servers |-> <<>>]
    /\ saddr = [s \in Servers |-> NoAddr]
    /\ sout = [s \in Servers |-> <<>>]

\* every command line of the model, the payloads from SampleMessages
Init ==
    InitWith([Clients -> ClientArgvs(Hosts, ClientPorts, SampleMessages)],
             [Servers -> ServerArgvs(Hosts, ServerPorts)])


(***************************************************************************)
(* The client binary, src/main.rs.                                         *)
(***************************************************************************)
\* the servers accepting connections on a socket address
Listening(addr) == {s \in Servers : spc[s] = "serving" /\ saddr[s] = addr}

\* the endpoint of "http://{server}:{port}"
ClientTarget(c) == ParseSocketAddr(cargs[c].host, cargs[c].port)

\* "RESPONSE="
ResponsePrefix == <<82, 69, 83, 80, 79, 78, 83, 69, 61>>

\* variant of ResponseLine: the payload is formatted with {}
ResponseLineDisplay(m) == ResponsePrefix \o FormatDisplay(m) \o <<10>>

\* println!("RESPONSE={:?}", message)
ResponseLine(m) == ResponsePrefix \o FormatDebug(m) \o <<10>>

\* the process ends with a status; an Err returned by main is reported on
\* standard error
ClientExits(c, status, report) ==
    /\ cpc' = [cpc EXCEPT ![c] = "exited"]
    /\ cexit' = [cexit EXCEPT ![c] = <<status>>]
    /\ cerr' = [cerr EXCEPT ![c] = @ \o report]

\* let cli = ClientCli::parse();
ClientParse(c) ==
    /\ cpc[c] = "parse"
    /\ IF ClientCliParse(cargs[c]).ok
       THEN /\ cpc' = [cpc EXCEPT ![c] = "connect"]
            /\ UNCHANGED <<cexit, cerr, cout>>
       ELSE LET r == ClientCliParse(cargs[c])
            IN  /\ ClientExits(c, r.exit,
                               IF r.shows = "usage" THEN <<"usage">> ELSE <<>>)
                /\ cout' = [cout EXCEPT ![c] =
                               IF r.shows = "usage" THEN @ ELSE @ \o ClapText(r.shows)]
    /\ UNCHANGED <<cargs, connects, calls, call, svars>>

\* variant of ClientConnect: a failed connect is tried once more
MayRetry(c) == connects[c] < 2

ClientConnectRetry(c) ==
    /\ cpc[c] = "connect"
    /\ connects' = [connects EXCEPT ![c] = @ + 1]
    /\ IF ClientTarget(c).ok /\ Listening(ClientTarget(c)) # {}
       THEN /\ \E s \in Listening(ClientTarget(c)) :
                   call' = [call EXCEPT ![c].server = <<s>>]
            /\ cpc' = [cpc EXCEPT ![c] = "call"]
            /\ UNCHANGED <<cexit, cerr>>
       ELSE /\ IF MayRetry(c)
               THEN UNCHANGED <<cpc, cexit, cerr>>
               ELSE ClientExits(c, ExitFailure, <<"transport">>)
            /\ UNCHANGED call
    /\ UNCHANGED <<cargs, cout, calls, svars>>

\* variant of ClientConnect: the connect error is dropped, not returned
ClientConnectSwallow(c) ==
    /\ cpc[c] = "connect"
    /\ connects' = [connects EXCEPT ![c] = @ + 1]
    /\ IF ClientTarget(c).ok /\ Listening(ClientTarget(c)) # {}
       THEN /\ \E s \in Listening(ClientTarget(c)) :
                   call' = [call EXCEPT ![c].server = <<s>>]
            /\ cpc' = [cpc EXCEPT ![c] = "call"]
            /\ UNCHANGED <<cexit, cerr>>
       ELSE /\ ClientExits(c, ExitOk, <<>>)
            /\ UNCHANGED call
    /\ UNCHANGED <<cargs, cout, calls, svars>>

\* let mut client = EchoServiceClient::connect(...).await?;
ClientConnect(c) ==
    /\ cpc[c] = "connect"
    /\ connects' = [connects EXCEPT ![c] = @ + 1]
    /\ IF ClientTarget(c).ok /\ Listening(ClientTarget(c)) # {}
       THEN /\ \E s \in Listening(ClientTarget(c)) :
                   call' = [call EXCEPT ![c].server = <<s>>]
            /\ cpc' = [cpc EXCEPT ![c] = "call"]
            /\ UNCHANGED <<cexit, cerr>>
       ELSE /\ ClientExits(c, ExitFailure, <<"transport">>)
            /\ UNCHANGED call
    /\ UNCHANGED <<cargs, cout, calls, svars>>

\* let request = tonic::Request::new(EchoRequest { message: cli.message });
\* client.echo(request) is issued.  The channel sends on the connection made
\* by connect; when that connection is gone it fails the call, or reconnects
\* to whichever server now accepts on the endpoint.
ClientSendEcho(c) ==
    /\ cpc[c] = "call"
    /\ calls' = [calls EXCEPT ![c] = @ + 1]
    /\ cpc' = [cpc EXCEPT ![c] = "await"]
    /\ LET req == [message |-> cargs[c].message]
           old == call[c].server[1]
       IN  IF spc[old] = "serving"
           THEN call' = [call EXCEPT ![c].state = "sent", ![c].req = req]
           ELSE \/ call' = [call EXCEPT ![c].state = "failed", ![c].req = req]
                \/ \E s \in Listening(ClientTarget(c)) :
                      call' = [call EXCEPT ![c].state = "sent", ![c].req = req,
                                           ![c].server = <<s>>]
    /\ UNCHANGED <<cargs, cexit, cout, cerr, connects, svars>>

\* variant of ClientRecv: a failed call is printed as an empty answer
ClientRecvDefault(c) ==
    /\ cpc[c] = "await"
    /\ call[c].state \in {"replied", "failed"}
    /\ cout' = [cout EXCEPT ![c] = @ \o ResponseLine(call[c].resp.message)]
    /\ ClientExits(c, ExitOk, <<>>)
    /\ call' = [call EXCEPT ![c].state =
                   IF call[c].state = "replied" THEN "delivered" ELSE "errored"]
    /\ UNCHANGED <<cargs, connects, calls, svars>>

\* let response = client.echo(request).await?;
\* println!("RESPONSE={:?}", response.into_inner().message);  Ok(())
ClientRecv(c) ==
    /\ cpc[c] = "await"
    /\ call[c].state \in {"replied", "failed"}
    /\ IF call[c].state = "replied" /\ call[c].resp.ok
       THEN /\ cout' = [cout EXCEPT ![c] = @ \o ResponseLine(call[c].resp.message)]
            /\ ClientExits(c, ExitOk, <<>>)
       ELSE /\ ClientExits(c, ExitFailure,
                           IF call[c].state = "failed"
                           THEN <<"transport">> ELSE <<"status">>)
            /\ UNCHANGED cout
    /\ call' = [call EXCEPT ![c].state =
                   IF call[c].state = "replied" THEN "delivered" ELSE "errored"]
    /\ UNCHANGED <<cargs, connects, calls, svars>>

(***************************************************************************)
(* The server binary, src/server.rs.                                       *)
(***************************************************************************)
ServerExits(s, status) ==
    /\ spc' = [spc EXCEPT ![s] = "exited"]
    /\ sexit' = [sexit EXCEPT ![s] = <<status>>]

\* let cli = ServerCli::parse();
ServerParse(s) ==
    /\ spc[s] = "parse"
    /\ IF ServerCliParse(sargs[s]).ok
       THEN /\ spc' = [spc EXCEPT ![s] = "addr"]
            /\ UNCHANGED <<sexit, sout>>
       ELSE LET r == ServerCliParse(sargs[s])
            IN  /\ ServerExits(s, r.exit)
                /\ sout' = [sout EXCEPT ![s] =
                               IF r.shows = "usage" THEN @
                               ELSE Append(@, [kind |-> r.shows, addr |-> NoAddr,
                                               message |-> <<>>])]
    /\ UNCHANGED <<sargs, saddr, cvars, call>>

\* variant of ServerParseAddr: the line is printed before the parse
ServerParseAddrAnnounceFirst(s) ==
    /\ spc[s] = "addr"
    /\ sout' = [sout EXCEPT ![s] =
                   Append(@, [kind |-> "listening",
                              addr |-> ParseSocketAddr(sargs[s].host, sargs[s].port),
                              message |-> <<>>])]
    /\ IF ParseSocketAddr(sargs[s].host, sargs[s].port).ok
       THEN /\ saddr' = [saddr EXCEPT ![s] = ParseSocketAddr(sargs[s].host, sargs[s].port)]
            /\ spc' = [spc EXCEPT ![s] = "bind"]
            /\ UNCHANGED sexit
       ELSE /\ ServerExits(s, ExitFailure)
            /\ UNCHANGED saddr
    /\ UNCHANGED <<sargs, cvars, call>>

\* let addr = format!("{}:{}", cli.server, cli.port).parse()?;
ServerParseAddr(s) ==
    /\ spc[s] = "addr"
    /\ IF ParseSocketAddr(sargs[s].host, sargs[s].port).ok
       THEN /\ saddr' = [saddr EXCEPT ![s] = ParseSocketAddr(sargs[s].host, sargs[s].port)]
            /\ spc' = [spc EXCEPT ![s] = "announce"]
            /\ UNCHANGED sexit
       ELSE /\ ServerExits(s, ExitFailure)
            /\ UNCHANGED saddr
    /\ UNCHANGED <<sargs, sout, cvars, call>>

ListeningLine(addr) == [kind |-> "listening", addr |-> addr, message |-> <<>>]

RequestLine(req) == [kind |-> "request", addr |-> NoAddr, message |-> req.message]

\* println!("Server listening on {}", addr);
ServerAnnounce(s) ==
    /\ spc[s] = "announce"
    /\ sout' = [sout EXCEPT ![s] = Append(@, ListeningLine(saddr[s]))]
    /\ spc' = [spc EXCEPT ![s] = "bind"]
    /\ UNCHANGED <<sargs, sexit, saddr, cvars, call>>

\* variant of ServerBind: the bind error is dropped, not returned
ServerBindIgnoreErr(s) ==
    /\ spc[s] = "bind"
    /\ IF Listening(saddr[s]) = {}
       THEN /\ spc' = [spc EXCEPT ![s] = "serving"]
            /\ UNCHANGED sexit
       ELSE ServerExits(s, ExitOk)
    /\ UNCHANGED <<sargs, saddr, sout, cvars, call>>

\* Server::builder().add_service(..).serve(addr).await?  -- the bind: it
\* fails when another process holds the address
ServerBind(s) ==
    /\ spc[s] = "bind"
    /\ IF Listening(saddr[s]) = {}
       THEN /\ spc' = [spc EXCEPT ![s] = "serving"]
            /\ UNCHANGED sexit
       ELSE ServerExits(s, ExitFailure)
    /\ UNCHANGED <<sargs, saddr, sout, cvars, call>>

\* variant of echo: the reply is formatted with {:?}
echo_debug(request) == [ok |-> TRUE, message |-> FormatDebug(request.message)]

\* variant of echo: an empty message is refused with an error status
echo_validating(request) ==
    [ok |-> request.message # <<>>, message |-> FormatDisplay(request.message)]

\* the value Echo::echo returns for a request
echo(request) == [ok |-> TRUE, message |-> FormatDisplay(request.message)]

\* Echo::echo, first statement: println!("Got a request: {:?}", request);
HandlerLog(c) ==
    /\ call[c].state = "sent"
    /\ LET s == call[c].server[1]
       IN  /\ spc[s] = "serving"
           /\ sout' = [sout EXCEPT ![s] = Append(@, RequestLine(call[c].req))]
    /\ call' = [call EXCEPT ![c].state = "logged"]
    /\ UNCHANGED <<sargs, spc, sexit, saddr, cvars>>

\* variant of HandlerResult: the answer is built from the request the server
\* logged last, as a handler keeping the request in shared state would
HandlerResultShared(c) ==
    LET log == sout[call[c].server[1]]
    IN  echo([message |-> log[Len(log)].message])

\* what the handler of c's call answers: built from c's own request
HandlerResult(c) == echo(call[c].req)

\* Echo::echo, the rest: the reply is built from the request and returned
HandlerReply(c) ==
    /\ call[c].state = "logged"
    /\ spc[call[c].server[1]] = "serving"
    /\ call' = [call EXCEPT ![c].state = "replied", ![c].resp = HandlerResult(c)]
    /\ UNCHANGED <<svars, cvars>>

\* the serving process is ended from outside (serve never returns Ok by
\* itself): calls it has not answered fail in the transport, answers not yet
\* read by the client may be lost
ServerKill(s) ==
    /\ spc[s] = "serving"
    /\ ServerExits(s, 128 + 9)
    /\ \E lost \in SUBSET {c \in Clients : call[c].server = <<s>>
                                           /\ call[c].state = "replied"} :
          call' = [c \in Clients |->
                     IF call[c].server = <<s>>
                        /\ (call[c].state \in {"sent", "logged"} \/ c \in lost)
                     THEN [call[c] EXCEPT !.state = "failed"]
                     ELSE call[c]]
    /\ UNCHANGED <<sargs, saddr, sout, cvars>>

Next ==
    \/ \E c \in Clients : ClientParse(c)
    \/ \E c \in Clients : ClientConnect(c)
    \/ \E c \in Clients : ClientSendEcho(c)
    \/ \E c \in Clients : ClientRecv(c)
    \/ \E s \in Servers : ServerParse(s)
    \/ \E s \in Servers : ServerParseAddr(s)
    \/ \E s \in Servers : ServerAnnounce(s)
    \/ \E s \in Servers : ServerBind(s)
    \/ \E c \in Clients : HandlerLog(c)
    \/ \E c \in Clients : HandlerReply(c)
    \/ \E s \in Servers : ServerKill(s)

Spec == Init /\ [][Next]_vars

\* one client with the default flags and any payload of Messages, against
\* one server with the default flags
InitEcho ==
    InitWith({a \in [Clients -> ClientArgvs({DefaultHost}, {DefaultPort}, Messages)] :
                 a["c1"].kind = "run" /\ a["c1"].port = DefaultPort
                 /\ a["c2"] = DefaultArgv("help")},
             {a \in [Servers -> ServerArgvs({DefaultHost}, {DefaultPort})] :
                 a["s1"].kind = "run" /\ a["s2"].kind = "help"})

SpecEcho == InitEcho /\ [][Next]_vars


(***************************************************************************)
(* Reading a double-quoted literal back: the inverse of the escapes.  A    *)
(* malformed body (a bare double quote, an unknown or cut-off escape)      *)
(* yields a text holding -1, which no message holds.                       *)
(***************************************************************************)
HexValue(d) ==
    IF d >= 48 /\ d <= 57 THEN d - 48
    ELSE IF d >= 97 /\ d <= 102 THEN d - 87
    ELSE -1

RECURSIVE HexNumber(_)
HexNumber(ds) ==
    IF ds = <<>> THEN 0
    ELSE HexNumber(SubSeq(ds, 1, Len(ds) - 1)) * 16 + HexValue(ds[Len(ds)])

SimpleEscape(e) ==
    IF e = 48 THEN 0
    ELSE IF e = 116 THEN 9
    ELSE IF e = 114 THEN 13
    ELSE IF e = 110 THEN 10
    ELSE IF e = 92 THEN 92
    ELSE IF e = 34 THEN 34
    ELSE -1

RECURSIVE Unescape(_)
Unescape(t) ==
    IF t = <<>> THEN <<>>
    ELSE IF t[1] = 34 THEN <<-1>>
    ELSE IF t[1] # 92 THEN <<t[1]>> \o Unescape(Tail(t))
    ELSE IF Len(t) < 2 THEN <<-1>>
    ELSE IF t[2] # 117
         THEN <<SimpleEscape(t[2])>> \o Unescape(SubSeq(t, 3, Len(t)))
    ELSE LET closes == {j \in 5..Len(t) : t[j] = 125}
         IN  IF Len(t) < 5 \/ t[3] # 123 \/ closes = {} THEN <<-1>>
             ELSE LET j == CHOOSE k \in closes : \A l \in closes : k <= l
                      ds == SubSeq(t, 4, j - 1)
                  IN  IF \E i \in 1..Len(ds) : HexValue(ds[i]) = -1 THEN <<-1>>
                      ELSE <<HexNumber(ds)>> \o Unescape(SubSeq(t, j + 1, Len(t)))

\* the number of line feeds in a text
RECURSIVE LineCount(_)
LineCount(t) ==
    IF t = <<>> THEN 0
    ELSE (IF Head(t) = 10 THEN 1 ELSE 0) + LineCount(Tail(t))

\* the number of lines of a text that start with RESPONSE=
ResponseLines(t) ==
    Cardinality({i \in 1..Len(t) :
                    /\ i = 1 \/ t[i - 1] = 10
                    /\ i + Len(ResponsePrefix) - 1 <= Len(t)
                    /\ SubSeq(t, i, i + Len(ResponsePrefix) - 1) = ResponsePrefix})

\* the text holds a line that starts with RESPONSE=
HasResponseLine(t) == ResponseLines(t) >= 1

\* printable ASCII without double quote and backslash
IsPlain(m) == \A i \in 1..Len(m) : m[i] >= 32 /\ m[i] <= 126 /\ m[i] \notin {34, 92}

(***************************************************************************)
(* Properties.                                                             *)
(***************************************************************************)

\* C1: a call the handler has answered carries a successful response whose
\* payload is the request's payload: the same characters, the same UTF-8
\* bytes and the same byte length, for every payload (the empty one and ones
\* with multi-byte characters included).
C1_EchoIdentity ==
    \A c \in Clients :
        call[c].state \in {"replied", "delivered"} =>
            /\ call[c].resp.ok
            /\ call[c].req.message = cargs[c].message
            /\ call[c].resp.message = call[c].req.message
            /\ Utf8(call[c].resp.message) = Utf8(call[c].req.message)
            /\ Len(Utf8(call[c].resp.message)) = Len(Utf8(call[c].req.message))

\* a call with a three-character payload holding a two-byte and a control
\* character has been answered
C1_Witness ==
    \E c \in Clients :
        /\ call[c].state = "replied"
        /\ call[c].req.message = <<Ch.eacute, Ch.quote, Ch.ctrl>>
        /\ Len(Utf8(call[c].resp.message)) = 4

\* C4 as stated: once the call succeeded, the text after RESPONSE= is the
\* echoed payload itself.
C4_Original ==
    \A c \in Clients :
        call[c].state = "delivered" =>
            cout[c] = ResponsePrefix \o cargs[c].message \o <<10>>

\* C4 as amended: once the call succeeded, standard output holds RESPONSE=
\* followed by the payload as a double-quoted literal and a line feed; reading
\* the literal back gives the payload, and the text written is never the
\* payload itself.
C4_QuotedLiteral ==
    \A c \in Clients :
        call[c].state = "delivered" =>
            LET out == cout[c]
                n == Len(out)
                k == Len(ResponsePrefix)
            IN  /\ n >= k + 3
                /\ SubSeq(out, 1, k) = ResponsePrefix
                /\ out[k + 1] = 34
                /\ out[n - 1] = 34
                /\ out[n] = 10
                /\ Unescape(SubSeq(out, k + 2, n - 2)) = cargs[c].message
                /\ SubSeq(out, k + 1, n - 1) # cargs[c].message
                /\ LineCount(out) = 1

\* a successful call whose payload holds a double quote, a backslash and a
\* line feed has been printed
C4_Witness ==
    \E c \in Clients :
        /\ call[c].state = "delivered"
        /\ cargs[c].message = <<Ch.quote, Ch.backslash, Ch.newline>>
        /\ cout[c] = ResponsePrefix \o <<34, 92, 34, 92, 92, 92, 110, 34, 10>>

\* C5: a call that succeeded with a payload of plain printable characters
\* prints exactly RESPONSE= and the payload in double quotes, and the client
\* exits with status 0; so for hello with the default flags.
C5_PlainQuoted ==
    \A c \in Clients :
        (call[c].state = "delivered" /\ IsPlain(cargs[c].message)) =>
            /\ cout[c] = ResponsePrefix \o <<34>> \o cargs[c].message \o <<34, 10>>
            /\ cexit[c] = <<ExitOk>>
            /\ cerr[c] = <<>>

\* the client run with the default flags and hello against the server on
\* 127.0.0.1:50052 has printed RESPONSE="hello" and exited
C5_Witness ==
    \E c \in Clients : \E s \in Servers :
        /\ cargs[c] = [kind |-> "run", host |-> <<127, 0, 0, 1>>, port |-> 50052,
                       message |-> Hello]
        /\ call[c].server = <<s>>
        /\ saddr[s] = [ok |-> TRUE, ip |-> <<127, 0, 0, 1>>, port |-> 50052]
        /\ cpc[c] = "exited"
        /\ cexit[c] = <<0>>
        /\ cout[c] = <<82, 69, 83, 80, 79, 78, 83, 69, 61,
                       34, 104, 101, 108, 108, 111, 34, 10>>

\* C6: every answer of the handler is a successful response, whatever the
\* payload, and every error a client reports comes from the transport (or
\* from its own command line), never from a status of the handler.
C6_HandlerNeverErrs ==
    /\ \A c \in Clients :
          call[c].state \in {"replied", "delivered", "errored"} => call[c].resp.ok
    /\ \A c \in Clients : \A i \in 1..Len(cerr[c]) : cerr[c][i] \in {"transport", "usage"}

\* the handler has answered a request with the empty payload
C6_Witness ==
    \E c \in Clients :
        /\ call[c].state = "replied"
        /\ call[c].req.message = <<>>
        /\ call[c].resp = [ok |-> TRUE, message |-> <<>>]


\* C2: whatever the interleaving of the handlers, the answer to a client's
\* call is built from that client's own payload, and what the client prints
\* is its own payload's line, never another client's.
C2_NoCrossTalk ==
    \A c \in Clients :
        /\ call[c].state \in {"replied", "delivered"} =>
              call[c].resp.message = cargs[c].message
        /\ call[c].state = "delivered" => cout[c] = ResponseLine(cargs[c].message)

\* two clients with distinct payloads have calls in flight at the same
\* server, both logged, the first of them answered while the second, logged
\* after it, is not yet
C2_Witness ==
    \E c, d \in Clients : \E s \in Servers :
        /\ c # d
        /\ cargs[c].message # cargs[d].message
        /\ call[c].server = <<s>> /\ call[d].server = <<s>>
        /\ call[c].state = "replied"
        /\ call[d].state = "logged"
        /\ Len(sout[s]) = 3
        /\ sout[s][3] = RequestLine(call[d].req)

\* C3: a connect made while no server accepts on the client's endpoint fails:
\* the client exits with a non-zero status without having issued the call and
\* without output; and nothing changes for a client once it has exited.
C3_NoServer ==
    [][\A c \in Clients :
          /\ (/\ cpc[c] = "connect"
              /\ cpc'[c] # "connect"
              /\ (~ClientTarget(c).ok \/ Listening(ClientTarget(c)) = {}))
             => /\ cpc'[c] = "exited"
                /\ cexit'[c] = <<ExitFailure>>
                /\ cerr'[c] = <<"transport">>
                /\ calls'[c] = 0
                /\ call'[c] = NoCall
                /\ cout'[c] = <<>>
          /\ cpc[c] = "exited"
             => /\ cpc'[c] = "exited"
                /\ cexit'[c] = cexit[c]
                /\ calls'[c] = calls[c]
                /\ cout'[c] = cout[c]]_vars

\* a client whose command line parsed has exited after a failed connect while
\* no server was serving at all
C3_Witness ==
    \E c \in Clients :
        /\ cargs[c].kind = "run"
        /\ cpc[c] = "exited"
        /\ connects[c] = 1
        /\ calls[c] = 0
        /\ cexit[c] = <<1>>
        /\ cerr[c] = <<"transport">>
        /\ cout[c] = <<>>
        /\ \A s \in Servers : spc[s] # "serving" /\ sexit[s] # <<128 + 9>>

C8_Original ==
    \A c \in Clients :
        cpc[c] = "exited" => (HasResponseLine(cout[c]) <=> cexit[c] = <<ExitOk>>)

\* C8 as amended: in every run that gets past the parsing of the command
\* line, a RESPONSE= line is written if and only if the client exits with
\* status 0; a run ended by the parsing writes none; at most one line is ever
\* written, and none before the exit; a call that fails in the transport ends
\* the run with that error reported, a non-zero status and no line.
C8_ResponseIffSuccess ==
    \A c \in Clients :
        /\ ResponseLines(cout[c]) <= 1
        /\ cpc[c] # "exited" => cout[c] = <<>>
        /\ (cpc[c] = "exited" /\ ClientCliParse(cargs[c]).ok) =>
              (HasResponseLine(cout[c]) <=> cexit[c] = <<ExitOk>>)
        /\ (cpc[c] = "exited" /\ ~ClientCliParse(cargs[c]).ok) =>
              ~HasResponseLine(cout[c])
        /\ call[c].state = "errored" =>
              /\ cexit[c] = <<ExitFailure>>
              /\ cerr[c] = <<"transport">>
              /\ cout[c] = <<>>

\* a client that had connected has exited after its call failed in the
\* transport
C8_Witness ==
    \E c \in Clients : \E s \in Servers :
        /\ call[c].state = "errored"
        /\ call[c].server = <<s>>
        /\ sexit[s] = <<128 + 9>>
        /\ cpc[c] = "exited"
        /\ cexit[c] # <<0>>
        /\ ~HasResponseLine(cout[c])

\* C9: a bind attempted while another process holds the address ends the
\* server with a non-zero status; an exited server stays exited; no call is
\* ever routed to a server that failed.
C9_BindFailure ==
    /\ [][\A s \in Servers :
            /\ (spc[s] = "bind" /\ spc'[s] # "bind" /\ Listening(saddr[s]) # {})
               => (spc'[s] = "exited" /\ sexit'[s] = <<ExitFailure>>)
            /\ spc[s] = "exited" => (spc'[s] = "exited" /\ sexit'[s] = sexit[s])]_vars
    /\ [](\A c \in Clients : \A s \in Servers :
            call[c].server = <<s>> => sexit[s] \notin {<<ExitFailure>>, <<ExitUsage>>, <<ExitOk>>})

\* a server has exited with status 1 at the bind while the other one serves
\* on the same address
C9_Witness ==
    \E s, r \in Servers :
        /\ s # r
        /\ spc[s] = "exited"
        /\ sexit[s] = <<1>>
        /\ saddr[s].ok
        /\ saddr[r] = saddr[s]
        /\ spc[r] = "serving"

\* C10: the listening line is on the server's output exactly from the
\* announce step on: not before the address is parsed, already before the
\* bind; a run whose address does not parse exits with a non-zero status
\* without the line, a run whose bind fails exits with the line printed.
C10_AnnounceBeforeBind ==
    \A s \in Servers :
        /\ spc[s] \in {"parse", "addr", "announce"} => sout[s] = <<>>
        /\ spc[s] \in {"bind", "serving"} =>
              (sout[s] # <<>> /\ sout[s][1] = ListeningLine(saddr[s]))
        /\ (spc[s] = "exited" /\ ServerCliParse(sargs[s]).ok
            /\ ~ParseSocketAddr(sargs[s].host, sargs[s].port).ok) =>
              (sout[s] = <<>> /\ sexit[s] = <<ExitFailure>>)
        /\ (spc[s] = "exited" /\ saddr[s].ok) =>
              (sout[s] # <<>> /\ sout[s][1] = ListeningLine(saddr[s]))

\* a server whose bind failed has exited with the listening line printed and
\* nothing else, without ever having served
C10_Witness ==
    \E s \in Servers :
        /\ spc[s] = "exited"
        /\ sexit[s] = <<1>>
        /\ sout[s] = <<ListeningLine([ok |-> TRUE, ip |-> <<127, 0, 0, 1>>,
                                      port |-> 50052])>>

====
